---- MODULE Spec2Model ----
(***************************************************************************)
(* Rain-alert monitor: the scheduled precipitation check with its Redis    *)
(* backed snooze state machine (the handler with snooze support), and the  *)
(* store-less handler of api/check-precipitation.ts.                       *)
(*                                                                         *)
(* Units.  Time is epoch seconds, as Math.floor(Date.now() / 1000).        *)
(* Precipitation in millimetres is counted in tenths of a millimetre;      *)
(* inches are counted in units of 1/25400 inch, so that the division by    *)
(* 25.4 is exact: x tenths of a mm = x * 100 units, 0.5 inch = 12700.      *)
(* A Redis string of decimal digits is the sequence of its digits; the     *)
(* empty sequence stands for the null reply of a missing key.              *)
(***************************************************************************)
EXTENDS Integers, Sequences, FiniteSets

VARIABLES
    now,        \* Math.floor(Date.now() / 1000)
    env,        \* process.env, parsed: the configuration of every run
    redis,      \* the two keys of the location: snooze:<key>, snooze:resume_sent:<key>
    pc,         \* per invocation: the await the handler is suspended at
    loc,        \* per invocation: the handler's local variables
    result,     \* per invocation: the Response returned
    log,        \* per invocation: the external calls made so far, in order
    delivered,  \* resume emails delivered since the last snooze record was written
    period,     \* "none", "set" (a record was written), "reset" (it was written
                \* over another one), "cleared" (it was deleted)
    started,    \* invocations started so far
    ticks       \* clock advances so far

vars == <<now, env, redis, pc, loc, result, log, delivered, period, started, ticks>>

(* Bounds of the model. *)
MaxRuns == 3
MaxTicks == 2

Runs == {1, 2}

(* The clock is read at whole weeks: a record written at time t with a     *)
(* duration of w weeks expires exactly at the w-th advance after t.        *)
TickSteps == {7 * 24 * 60 * 60}

(* The arrays of daily sums (tenths of a mm) a fetch may yield: totals of  *)
(* 0, 0.5, 0.752, 1.0 and 1.252 inches.                                    *)
PrecipitationValues ==
    {<<>>, <<0, 0>>, <<127>>, <<64, 127>>, <<127, 127>>, <<127, 191>>}

(* Weekly sums around the bounds of the default bands: totals of 0, 0.496, *)
(* 0.5, 0.504, 0.748, 0.996, 1.0, 1.004 and 1.26 inches.                   *)
TierProbes ==
    {<<0>>, <<126>>, <<127>>, <<128>>, <<95, 95>>, <<253>>, <<254>>, <<255>>, <<160, 160>>}

(* ---------------------------------------------------------------------- *)
(* Strings of digits: Number.prototype.toString and parseInt(s, 10) on a  *)
(* non-negative integer.                                                  *)
RECURSIVE NumToString(_)
NumToString(n) == IF n < 10 THEN <<n>> ELSE Append(NumToString(n \div 10), n % 10)

RECURSIVE ParseInt(_)
ParseInt(s) ==
    IF Len(s) = 1 THEN s[1]
    ELSE ParseInt(SubSeq(s, 1, Len(s) - 1)) * 10 + s[Len(s)]

Null == <<>>

RECURSIVE Sum(_)
Sum(values) == IF values = <<>> THEN 0 ELSE values[1] + Sum(Tail(values))

(* totalPrecipitationMm / 25.4, in units of 1/25400 inch *)
TotalPrecipitationInches(values) == Sum(values) * 100

(* ---------------------------------------------------------------------- *)
(* Configuration: the parsed environment.  Inches in units of 1/25400.    *)
DefaultEnv ==
    [thresholdInches |-> 12700,
     snoozeMediumMin |-> 12700, snoozeMediumMax |-> 25400, snoozeMediumWeeks |-> 2,
     snoozeHighMin |-> 25400, snoozeHighWeeks |-> 3]

(* threshold 0.25, medium [0.5, 0.752] -> 1 week, high [1.252, oo) -> 2   *)
(* weeks: a band between the tiers that belongs to neither                 *)
GapEnv ==
    [thresholdInches |-> 6350,
     snoozeMediumMin |-> 12700, snoozeMediumMax |-> 19100, snoozeMediumWeeks |-> 1,
     snoozeHighMin |-> 31800, snoozeHighWeeks |-> 2]

Envs == {DefaultEnv, GapEnv}

(* SNOOZE_MEDIUM_WEEKS="0", SNOOZE_HIGH_WEEKS="1": parseFloat takes both *)
ZeroEnv ==
    [thresholdInches |-> 12700,
     snoozeMediumMin |-> 12700, snoozeMediumMax |-> 25400, snoozeMediumWeeks |-> 0,
     snoozeHighMin |-> 25400, snoozeHighWeeks |-> 1]

(* the threshold taken as inclusive *)
ThresholdReached(total, e) == total >= e.thresholdInches

ThresholdExceeded(total, e) == total > e.thresholdInches

(* the medium band looked up before the high band *)
SnoozeWeeksMediumFirst(total, e) ==
    IF total >= e.snoozeMediumMin /\ total <= e.snoozeMediumMax
    THEN {e.snoozeMediumWeeks}
    ELSE IF total >= e.snoozeHighMin THEN {e.snoozeHighWeeks} ELSE {}

(* the medium band without its upper bound *)
SnoozeWeeksNoUpperBound(total, e) ==
    IF total >= e.snoozeHighMin THEN {e.snoozeHighWeeks}
    ELSE IF total >= e.snoozeMediumMin THEN {e.snoozeMediumWeeks} ELSE {}

(* the high band entered only above its bound, the medium band left at its *)
(* upper bound                                                             *)
SnoozeWeeksOpenBounds(total, e) ==
    IF total > e.snoozeHighMin THEN {e.snoozeHighWeeks}
    ELSE IF total >= e.snoozeMediumMin /\ total < e.snoozeMediumMax
         THEN {e.snoozeMediumWeeks}
         ELSE {}

(* number | null as a set of at most one number *)
SnoozeWeeks(total, e) ==
    IF total >= e.snoozeHighMin THEN {e.snoozeHighWeeks}
    ELSE IF total >= e.snoozeMediumMin /\ total <= e.snoozeMediumMax
         THEN {e.snoozeMediumWeeks}
         ELSE {}

(* the comparison of getSnoozeState turned round *)
IsSnoozedTurned(expiresAt, t) == expiresAt < t

(* an expiry equal to the current time still taken for snoozed *)
IsSnoozedInclusive(expiresAt, t) == expiresAt >= t

IsSnoozed(expiresAt, t) == expiresAt > t

(* a record resolved only once its expiry is past *)
IsExpiredStrictly(expiresAt, t) == expiresAt # 0 /\ expiresAt < t

IsExpired(expiresAt, t) == expiresAt # 0 /\ expiresAt <= t

(* the duration taken for days *)
SnoozeExpiryInDays(t, weeks) == t + (weeks * 24 * 60 * 60)

SnoozeExpiry(t, weeks) == t + (weeks * 7 * 24 * 60 * 60)

(* new Date(expiresAt * 1000).toISOString(): the day since the epoch, the  *)
(* second of that day and the milliseconds, which the text of the date     *)
(* spells out as YYYY-MM-DD, Thh:mm:ss and .sssZ                           *)
ExpiryDate(expiresAt) ==
    [day |-> expiresAt \div (24 * 60 * 60), second |-> expiresAt % (24 * 60 * 60),
     ms |-> 0]

(* ---------------------------------------------------------------------- *)
(* The handler's locals, and the number of store clients the invocation    *)
(* has connected and not quit.  getSnoozeState, hasResumeEmailBeenSent,    *)
(* markResumeEmailSent and setSnooze are one step each, with their connect *)
(* and their quit inside it; a quit that is rejected has lost its socket.  *)
NoLocals == [handler |-> "none", total |-> 0, snoozeWeeks |-> {}, open |-> 0]
NoResult == [status |-> 0]

StoreOutcomes == {"ok", "connectFail", "quitFail"}
SendOutcomes == {"ok", "error", "throw"}
NoData == {"noResponses", "noDaily", "noValues"}

Init ==
    /\ now = 1
    /\ env \in {[redisUrl |-> u, cfg |-> e] : u \in BOOLEAN, e \in Envs}
    /\ redis = [snooze |-> Null, resumeSent |-> Null]
    /\ pc = [r \in Runs |-> "idle"]
    /\ loc = [r \in Runs |-> NoLocals]
    /\ result = [r \in Runs |-> NoResult]
    /\ log = [r \in Runs |-> <<>>]
    /\ delivered = 0
    /\ period = "none"
    /\ started = 0
    /\ ticks = 0

(* A response just returned is handed to the caller before anything else  *)
(* happens: result and log are read by no step of any invocation.          *)
NoneDone == \A q \in Runs : pc[q] # "done"

(* Time passes. *)
Tick(d) ==
    /\ NoneDone
    /\ ticks < MaxTicks
    /\ now' = now + d
    /\ ticks' = ticks + 1
    /\ UNCHANGED <<env, redis, pc, loc, result, log, delivered, period, started>>

(* The handler returns: Response.json(body, {status}) *)
Return(r, body, event) ==
    /\ pc' = [pc EXCEPT ![r] = "done"]
    /\ result' = [result EXCEPT ![r] = body]
    /\ log' = [log EXCEPT ![r] = Append(@, event)]

(* await: the handler goes on to its next external call *)
Goto(r, label, event) ==
    /\ pc' = [pc EXCEPT ![r] = label]
    /\ log' = [log EXCEPT ![r] = Append(@, event)]
    /\ UNCHANGED result

(* the handler without its catch: the error leaves it and no response is made *)
ErrorLeavesHandler == [status |-> 0, error |-> "Internal server error"]

(* catch (error: any) of the handler *)
InternalError == [status |-> 500, error |-> "Internal server error"]

(* the store read although no store is configured *)
StartAlwaysReads(r) ==
    /\ pc[r] = "idle"
    /\ \A q \in Runs : loc[q].handler # "api"
    /\ NoneDone
    /\ started < MaxRuns
    /\ started' = started + 1
    /\ pc' = [pc EXCEPT ![r] = "getSnoozeState"]
    /\ loc' = [loc EXCEPT ![r] = [NoLocals EXCEPT !.handler = "snooze"]]
    /\ result' = [result EXCEPT ![r] = NoResult]
    /\ log' = [log EXCEPT ![r] = <<>>]
    /\ UNCHANGED <<now, env, redis, delivered, period, ticks>>

(* An invocation of the handler with snooze support, up to its first await. *)
(* The store-less handler shares nothing with other invocations, so its    *)
(* steps commute with theirs and it is taken to run on its own.            *)
Start(r) ==
    /\ pc[r] = "idle"
    /\ \A q \in Runs : loc[q].handler # "api"
    /\ NoneDone
    /\ started < MaxRuns
    /\ started' = started + 1
    /\ pc' = [pc EXCEPT ![r] = IF env.redisUrl THEN "getSnoozeState" ELSE "fetch"]
    /\ loc' = [loc EXCEPT ![r] = [NoLocals EXCEPT !.handler = "snooze"]]
    /\ result' = [result EXCEPT ![r] = NoResult]
    /\ log' = [log EXCEPT ![r] = <<>>]
    /\ UNCHANGED <<now, env, redis, delivered, period, ticks>>

(* getSnoozeState and the handler's branches on its result. *)
GetSnoozeState(r, o) ==
    /\ pc[r] = "getSnoozeState"
    /\ NoneDone
    /\ IF o # "ok" \/ redis.snooze = Null
       THEN Goto(r, "fetch", IF o = "ok" THEN "get:absent" ELSE "get:fail")
       ELSE LET expiresAt == ParseInt(redis.snooze)
            IN IF IsSnoozed(expiresAt, now)
               THEN Return(r, [status |-> 200, message |-> "Currently snoozed",
                               snoozed |-> TRUE, expiresAt |-> ExpiryDate(expiresAt)],
                           "get:snoozed")
               ELSE IF IsExpired(expiresAt, now)
                    THEN Goto(r, "hasResumeEmailBeenSent", "get:expired")
                    ELSE Goto(r, "fetch", "get:zero")
    /\ UNCHANGED <<now, env, redis, loc, delivered, period, started, ticks>>

(* the flag never looked at *)
HasResumeEmailBeenSentNever(r, o) ==
    /\ pc[r] = "hasResumeEmailBeenSent"
    /\ NoneDone
    /\ Goto(r, "sendResume", "flag:unsent")
    /\ UNCHANGED <<now, env, redis, loc, delivered, period, started, ticks>>

(* hasResumeEmailBeenSent: false on any failure.  The log tells a false   *)
(* answer given although the flag is set ("flag:missed") from one given  *)
(* with no flag in the store ("flag:unsent").                             *)
HasResumeEmailBeenSent(r, o) ==
    /\ pc[r] = "hasResumeEmailBeenSent"
    /\ NoneDone
    /\ IF o = "ok" /\ redis.resumeSent = <<1>>
       THEN Goto(r, "clearSnooze", "flag:sent")
       ELSE Goto(r, "sendResume",
                 IF redis.resumeSent = <<1>> THEN "flag:missed" ELSE "flag:unsent")
    /\ UNCHANGED <<now, env, redis, loc, delivered, period, started, ticks>>

(* resend.emails.send of the resume email *)
SendResume(r, o) ==
    /\ pc[r] = "sendResume"
    /\ NoneDone
    /\ CASE o = "ok" -> /\ Goto(r, "markResumeEmailSent", "resume:ok")
                        /\ delivered' = delivered + 1
         [] o = "error" -> /\ Goto(r, "clearSnooze", "resume:error")
                           /\ UNCHANGED delivered
         [] o = "throw" -> /\ Return(r, InternalError, "resume:throw")
                           /\ UNCHANGED delivered
    /\ UNCHANGED <<now, env, redis, loc, period, started, ticks>>

MarkResumeEmailSent(r, o) ==
    /\ pc[r] = "markResumeEmailSent"
    /\ NoneDone
    /\ redis' = IF o = "connectFail" THEN redis ELSE [redis EXCEPT !.resumeSent = <<1>>]
    /\ Goto(r, "clearSnooze", IF o = "ok" THEN "mark:ok" ELSE "mark:fail")
    /\ UNCHANGED <<now, env, loc, delivered, period, started, ticks>>

(* clearSnooze: connect and del(snoozeKey) *)
ClearSnooze(r, o) ==
    /\ pc[r] = "clearSnooze"
    /\ NoneDone
    /\ IF o = "ok"
       THEN /\ redis' = [redis EXCEPT !.snooze = Null]
            /\ period' = IF redis.snooze # Null THEN "cleared" ELSE period
            /\ loc' = [loc EXCEPT ![r].open = 1]
            /\ Goto(r, "clearResumeSent", "del:snooze")
       ELSE /\ Return(r, InternalError, "clear:fail")
            /\ UNCHANGED <<redis, period, loc>>
    /\ UNCHANGED <<now, env, delivered, started, ticks>>

(* clearSnooze followed by a return instead of the fresh check *)
ClearResumeSentReturns(r, o) ==
    /\ pc[r] = "clearResumeSent"
    /\ NoneDone
    /\ redis' = IF o = "connectFail" THEN redis ELSE [redis EXCEPT !.resumeSent = Null]
    /\ loc' = [loc EXCEPT ![r].open = IF o = "connectFail" THEN 1 ELSE 0]
    /\ IF o = "ok"
       THEN Return(r, [status |-> 200, message |-> "Snooze cleared"], "del:resumeSent")
       ELSE Return(r, InternalError, "clear:fail")
    /\ UNCHANGED <<now, env, delivered, period, started, ticks>>

(* clearSnooze: del(resumeSentKey) and quit.  When the del is rejected     *)
(* ("connectFail" here) the catch rethrows and the quit is never reached.  *)
ClearResumeSent(r, o) ==
    /\ pc[r] = "clearResumeSent"
    /\ NoneDone
    /\ redis' = IF o = "connectFail" THEN redis ELSE [redis EXCEPT !.resumeSent = Null]
    /\ loc' = [loc EXCEPT ![r].open = IF o = "connectFail" THEN 1 ELSE 0]
    /\ IF o = "ok"
       THEN Goto(r, "fetch", "del:resumeSent")
       ELSE Return(r, InternalError, "clear:fail")
    /\ UNCHANGED <<now, env, delivered, period, started, ticks>>

NoAlertNeeded(total, e) ==
    [status |-> 200, message |-> "No alert needed", precipitation |-> total,
     threshold |-> e.thresholdInches]

AlertSent(total, e, weeks) ==
    [status |-> 200, message |-> "Alert sent", precipitation |-> total,
     threshold |-> e.thresholdInches, snoozed |-> weeks # {}, snoozeWeeks |-> weeks]

AlertFailed == [status |-> 500, error |-> "Failed to send alert email"]

DataError(k) ==
    [status |-> 500,
     error |-> CASE k = "noResponses" -> "Failed to fetch weather data"
                 [] k = "noDaily" -> "No daily weather data available"
                 [] k = "noValues" -> "No precipitation data available"]

(* missing data taken for a dry week *)
FetchUnavailableAsDry(r, k) ==
    /\ pc[r] = "fetch"
    /\ NoneDone
    /\ IF k = "throw"
       THEN Return(r, InternalError, "fetch:throw")
       ELSE Return(r, NoAlertNeeded(0, env.cfg), "fetch:nodata")
    /\ UNCHANGED <<now, env, redis, loc, delivered, period, started, ticks>>

(* fetchWeatherApi throws, or yields nothing usable *)
FetchUnavailable(r, k) ==
    /\ pc[r] = "fetch"
    /\ NoneDone
    /\ IF k = "throw"
       THEN Return(r, InternalError, "fetch:throw")
       ELSE Return(r, DataError(k), "fetch:nodata")
    /\ UNCHANGED <<now, env, redis, loc, delivered, period, started, ticks>>

(* fetchWeatherApi yields the daily sums; the total is compared with the threshold *)
Fetch(r, values) ==
    /\ pc[r] = "fetch"
    /\ NoneDone
    /\ LET total == TotalPrecipitationInches(values)
       IN /\ loc' = [loc EXCEPT ![r].total = total]
          /\ IF ThresholdExceeded(total, env.cfg)
             THEN Goto(r, "sendAlert", "fetch:ok")
             ELSE Return(r, NoAlertNeeded(total, env.cfg), "fetch:ok")
    /\ UNCHANGED <<now, env, redis, delivered, period, started, ticks>>

(* the alert's emailResult.error not looked at *)
SendAlertIgnoringError(r, o) ==
    /\ pc[r] = "sendAlert"
    /\ NoneDone
    /\ IF o = "throw"
       THEN Return(r, InternalError, "alert:throw") /\ UNCHANGED loc
       ELSE LET snoozeWeeks == IF env.redisUrl
                               THEN SnoozeWeeks(loc[r].total, env.cfg) ELSE {}
            IN /\ loc' = [loc EXCEPT ![r].snoozeWeeks = snoozeWeeks]
               /\ IF snoozeWeeks # {}
                  THEN Goto(r, "setSnooze", "alert:" \o o)
                  ELSE Return(r, AlertSent(loc[r].total, env.cfg, snoozeWeeks),
                              "alert:" \o o)
    /\ UNCHANGED <<now, env, redis, delivered, period, started, ticks>>

(* the alert email sent once more after a first error *)
SendAlertRetrying(r, o) ==
    /\ pc[r] = "sendAlert"
    /\ NoneDone
    /\ CASE o = "throw" -> Return(r, InternalError, "alert:throw") /\ UNCHANGED loc
         [] o = "error" ->
              /\ IF \E i \in 1..Len(log[r]) : log[r][i] = "alert:error"
                 THEN Return(r, AlertFailed, "alert:error")
                 ELSE Goto(r, "sendAlert", "alert:error")
              /\ UNCHANGED loc
         [] o = "ok" ->
              LET snoozeWeeks == IF env.redisUrl
                                 THEN SnoozeWeeks(loc[r].total, env.cfg) ELSE {}
              IN /\ loc' = [loc EXCEPT ![r].snoozeWeeks = snoozeWeeks]
                 /\ IF snoozeWeeks # {}
                    THEN Goto(r, "setSnooze", "alert:ok")
                    ELSE Return(r, AlertSent(loc[r].total, env.cfg, snoozeWeeks),
                                "alert:ok")
    /\ UNCHANGED <<now, env, redis, delivered, period, started, ticks>>

(* resend.emails.send of the alert, and the choice of the snooze duration *)
SendAlert(r, o) ==
    /\ pc[r] = "sendAlert"
    /\ NoneDone
    /\ CASE o = "throw" -> Return(r, InternalError, "alert:throw") /\ UNCHANGED loc
         [] o = "error" -> Return(r, AlertFailed, "alert:error") /\ UNCHANGED loc
         [] o = "ok" ->
              LET snoozeWeeks == IF env.redisUrl
                                 THEN SnoozeWeeks(loc[r].total, env.cfg) ELSE {}
              IN /\ loc' = [loc EXCEPT ![r].snoozeWeeks = snoozeWeeks]
                 /\ IF snoozeWeeks # {}
                    THEN Goto(r, "setSnooze", "alert:ok")
                    ELSE Return(r, AlertSent(loc[r].total, env.cfg, snoozeWeeks),
                                "alert:ok")
    /\ UNCHANGED <<now, env, redis, delivered, period, started, ticks>>

(* setSnooze without the try/catch around it *)
SetSnoozeUncaught(r, o) ==
    /\ pc[r] = "setSnooze"
    /\ NoneDone
    /\ LET weeks == CHOOSE w \in loc[r].snoozeWeeks : TRUE
       IN IF o = "connectFail"
          THEN UNCHANGED <<redis, period, delivered>>
          ELSE /\ redis' = [redis EXCEPT
                              !.snooze = NumToString(SnoozeExpiry(now, weeks))]
               /\ period' = IF redis.snooze # Null THEN "reset" ELSE "set"
               /\ delivered' = 0
    /\ IF o = "ok"
       THEN Return(r, AlertSent(loc[r].total, env.cfg, loc[r].snoozeWeeks), "set:ok")
       ELSE Return(r, InternalError, "set:fail")
    /\ UNCHANGED <<now, env, loc, started, ticks>>

(* the record written only where there is none (SET ... NX) *)
SetSnoozeKeepsExisting(r, o) ==
    /\ pc[r] = "setSnooze"
    /\ NoneDone
    /\ LET weeks == CHOOSE w \in loc[r].snoozeWeeks : TRUE
       IN IF o = "connectFail" \/ redis.snooze # Null
          THEN UNCHANGED <<redis, period, delivered>>
          ELSE /\ redis' = [redis EXCEPT
                              !.snooze = NumToString(SnoozeExpiry(now, weeks))]
               /\ period' = "set"
               /\ delivered' = 0
    /\ Return(r, AlertSent(loc[r].total, env.cfg, loc[r].snoozeWeeks),
              IF o = "ok" THEN "set:ok" ELSE "set:fail")
    /\ UNCHANGED <<now, env, loc, started, ticks>>

(* setSnooze inside the handler's try/catch, and the handler's return *)
SetSnooze(r, o) ==
    /\ pc[r] = "setSnooze"
    /\ NoneDone
    /\ LET weeks == CHOOSE w \in loc[r].snoozeWeeks : TRUE
       IN IF o = "connectFail"
          THEN UNCHANGED <<redis, period, delivered>>
          ELSE /\ redis' = [redis EXCEPT
                              !.snooze = NumToString(SnoozeExpiry(now, weeks))]
               /\ period' = IF redis.snooze # Null THEN "reset" ELSE "set"
               /\ delivered' = 0
    /\ Return(r, AlertSent(loc[r].total, env.cfg, loc[r].snoozeWeeks),
              IF o = "ok" THEN "set:ok" ELSE "set:fail")
    /\ UNCHANGED <<now, env, loc, started, ticks>>

(* ---------------------------------------------------------------------- *)
(* The store-less handler of api/check-precipitation.ts.                   *)
ApiStart(r) ==
    /\ pc[r] = "idle"
    /\ \A q \in Runs : pc[q] = "idle"
    /\ NoneDone
    /\ started < MaxRuns
    /\ started' = started + 1
    /\ pc' = [pc EXCEPT ![r] = "apiFetch"]
    /\ loc' = [loc EXCEPT ![r] = [NoLocals EXCEPT !.handler = "api"]]
    /\ result' = [result EXCEPT ![r] = NoResult]
    /\ log' = [log EXCEPT ![r] = <<>>]
    /\ UNCHANGED <<now, env, redis, delivered, period, ticks>>

ApiAlertSent(total, e) ==
    [status |-> 200, message |-> "Alert sent", precipitation |-> total,
     threshold |-> e.thresholdInches]

ApiFetchUnavailable(r, k) ==
    /\ pc[r] = "apiFetch"
    /\ NoneDone
    /\ IF k = "throw"
       THEN Return(r, InternalError, "fetch:throw")
       ELSE Return(r, DataError(k), "fetch:nodata")
    /\ UNCHANGED <<now, env, redis, loc, delivered, period, started, ticks>>

ApiFetch(r, values) ==
    /\ pc[r] = "apiFetch"
    /\ NoneDone
    /\ LET total == TotalPrecipitationInches(values)
       IN /\ loc' = [loc EXCEPT ![r].total = total]
          /\ IF ThresholdExceeded(total, env.cfg)
             THEN Goto(r, "apiSendAlert", "fetch:ok")
             ELSE Return(r, NoAlertNeeded(total, env.cfg), "fetch:ok")
    /\ UNCHANGED <<now, env, redis, delivered, period, started, ticks>>

ApiSendAlert(r, o) ==
    /\ pc[r] = "apiSendAlert"
    /\ NoneDone
    /\ CASE o = "throw" -> Return(r, InternalError, "alert:throw")
         [] o = "error" -> Return(r, AlertFailed, "alert:error")
         [] o = "ok" -> Return(r, ApiAlertSent(loc[r].total, env.cfg), "alert:ok")
    /\ UNCHANGED <<now, env, redis, loc, delivered, period, started, ticks>>

(* The caller has the response; the invocation is over. *)
Finish(r) ==
    /\ pc[r] = "done"
    /\ pc' = [pc EXCEPT ![r] = "idle"]
    /\ loc' = [loc EXCEPT ![r] = NoLocals]
    /\ result' = [result EXCEPT ![r] = NoResult]
    /\ log' = [log EXCEPT ![r] = <<>>]
    /\ UNCHANGED <<now, env, redis, delivered, period, started, ticks>>

Next ==
    \/ \E d \in TickSteps : Tick(d)
    \/ \E r \in Runs : Finish(r)
    \/ \E r \in Runs : Start(r)
    \/ \E r \in Runs, o \in StoreOutcomes : GetSnoozeState(r, o)
    \/ \E r \in Runs, o \in StoreOutcomes : HasResumeEmailBeenSent(r, o)
    \/ \E r \in Runs, o \in SendOutcomes : SendResume(r, o)
    \/ \E r \in Runs, o \in StoreOutcomes : MarkResumeEmailSent(r, o)
    \/ \E r \in Runs, o \in {"ok", "connectFail"} : ClearSnooze(r, o)
    \/ \E r \in Runs, o \in StoreOutcomes : ClearResumeSent(r, o)
    \/ \E r \in Runs, k \in NoData \cup {"throw"} : FetchUnavailable(r, k)
    \/ \E r \in Runs, values \in PrecipitationValues : Fetch(r, values)
    \/ \E r \in Runs, o \in SendOutcomes : SendAlert(r, o)
    \/ \E r \in Runs, o \in StoreOutcomes : SetSnooze(r, o)
    \/ \E r \in Runs : ApiStart(r)
    \/ \E r \in Runs, k \in NoData \cup {"throw"} : ApiFetchUnavailable(r, k)
    \/ \E r \in Runs, values \in PrecipitationValues : ApiFetch(r, values)
    \/ \E r \in Runs, o \in SendOutcomes : ApiSendAlert(r, o)

Spec == Init /\ [][Next]_vars

(* Invocations one after another, as the daily schedule makes them: a run  *)
(* starts only when no other run is under way.                             *)
AllIdle == \A q \in Runs : pc[q] = "idle"

StartSeq(r) == AllIdle /\ Start(r)

ApiStartSeq(r) == AllIdle /\ ApiStart(r)

NextSeq ==
    \/ \E d \in TickSteps : Tick(d)
    \/ \E r \in Runs : Finish(r)
    \/ \E r \in Runs : StartSeq(r)
    \/ \E r \in Runs, o \in StoreOutcomes : GetSnoozeState(r, o)
    \/ \E r \in Runs, o \in StoreOutcomes : HasResumeEmailBeenSent(r, o)
    \/ \E r \in Runs, o \in SendOutcomes : SendResume(r, o)
    \/ \E r \in Runs, o \in StoreOutcomes : MarkResumeEmailSent(r, o)
    \/ \E r \in Runs, o \in {"ok", "connectFail"} : ClearSnooze(r, o)
    \/ \E r \in Runs, o \in StoreOutcomes : ClearResumeSent(r, o)
    \/ \E r \in Runs, k \in NoData \cup {"throw"} : FetchUnavailable(r, k)
    \/ \E r \in Runs, values \in PrecipitationValues : Fetch(r, values)
    \/ \E r \in Runs, o \in SendOutcomes : SendAlert(r, o)
    \/ \E r \in Runs, o \in StoreOutcomes : SetSnooze(r, o)
    \/ \E r \in Runs : ApiStartSeq(r)
    \/ \E r \in Runs, k \in NoData \cup {"throw"} : ApiFetchUnavailable(r, k)
    \/ \E r \in Runs, values \in PrecipitationValues : ApiFetch(r, values)
    \/ \E r \in Runs, o \in SendOutcomes : ApiSendAlert(r, o)

SpecSeq == Init /\ [][NextSeq]_vars

(* The same invocations under a configuration with a duration of zero. *)
InitZero ==
    /\ now = 1
    /\ env = [redisUrl |-> TRUE, cfg |-> ZeroEnv]
    /\ redis = [snooze |-> Null, resumeSent |-> Null]
    /\ pc = [r \in Runs |-> "idle"]
    /\ loc = [r \in Runs |-> NoLocals]
    /\ result = [r \in Runs |-> NoResult]
    /\ log = [r \in Runs |-> <<>>]
    /\ delivered = 0
    /\ period = "none"
    /\ started = 0
    /\ ticks = 0

SpecZero == InitZero /\ [][NextSeq]_vars

(* Invocations that go on for ever.  The first MaxRuns of them may meet    *)
(* any failure; from then on the store, the weather source and the         *)
(* notifier respond.  The clock stops at its last advance.                 *)
FailuresLeft == started < MaxRuns

Responding(outcomes) == IF FailuresLeft THEN outcomes ELSE {"ok"}

StartLive(r) ==
    /\ AllIdle
    /\ ~FailuresLeft
    /\ pc' = [pc EXCEPT ![r] = IF env.redisUrl THEN "getSnoozeState" ELSE "fetch"]
    /\ loc' = [loc EXCEPT ![r] = [NoLocals EXCEPT !.handler = "snooze"]]
    /\ result' = [result EXCEPT ![r] = NoResult]
    /\ log' = [log EXCEPT ![r] = <<>>]
    /\ UNCHANGED <<now, env, redis, delivered, period, started, ticks>>

InitLive ==
    /\ now = 1
    /\ env \in {[redisUrl |-> TRUE, cfg |-> e] : e \in Envs}
    /\ redis = [snooze |-> Null, resumeSent |-> Null]
    /\ pc = [r \in Runs |-> "idle"]
    /\ loc = [r \in Runs |-> NoLocals]
    /\ result = [r \in Runs |-> NoResult]
    /\ log = [r \in Runs |-> <<>>]
    /\ delivered = 0
    /\ period = "none"
    /\ started = 0
    /\ ticks = 0

(* the steps of the invocation r *)
StepLive(r) ==
    \/ \E o \in Responding(StoreOutcomes) : GetSnoozeState(r, o)
    \/ \E o \in Responding(StoreOutcomes) : HasResumeEmailBeenSent(r, o)
    \/ \E o \in Responding(SendOutcomes) : SendResume(r, o)
    \/ \E o \in Responding(StoreOutcomes) : MarkResumeEmailSent(r, o)
    \/ \E o \in Responding({"ok", "connectFail"}) : ClearSnooze(r, o)
    \/ \E o \in Responding(StoreOutcomes) : ClearResumeSent(r, o)
    \/ \E k \in NoData \cup {"throw"} : FailuresLeft /\ FetchUnavailable(r, k)
    \/ \E values \in PrecipitationValues : Fetch(r, values)
    \/ \E o \in Responding(SendOutcomes) : SendAlert(r, o)
    \/ \E o \in Responding(StoreOutcomes) : SetSnooze(r, o)

NextLive ==
    \/ \E d \in TickSteps : Tick(d)
    \/ \E r \in Runs : Finish(r)
    \/ \E r \in Runs : StartSeq(r)
    \/ \E r \in Runs : StartLive(r)
    \/ \E r \in Runs : StepLive(r)

(* Every invocation under way takes its next step and hands over its       *)
(* response; invocations keep being made; time passes.                     *)
FairLive ==
    /\ \A r \in Runs : WF_vars(StepLive(r))
    /\ \A r \in Runs : WF_vars(Finish(r))
    /\ SF_vars(\E r \in Runs : StartSeq(r) \/ StartLive(r))
    /\ SF_vars(\E d \in TickSteps : Tick(d))

SpecLive == InitLive /\ [][NextLive]_vars /\ FairLive

(* The default configuration with a store, and totals around its bounds. *)
InitDefault ==
    /\ now = 1
    /\ env = [redisUrl |-> TRUE, cfg |-> DefaultEnv]
    /\ redis = [snooze |-> Null, resumeSent |-> Null]
    /\ pc = [r \in Runs |-> "idle"]
    /\ loc = [r \in Runs |-> NoLocals]
    /\ result = [r \in Runs |-> NoResult]
    /\ log = [r \in Runs |-> <<>>]
    /\ delivered = 0
    /\ period = "none"
    /\ started = 0
    /\ ticks = 0

NextDefault ==
    \/ \E d \in TickSteps : Tick(d)
    \/ \E r \in Runs : Finish(r)
    \/ \E r \in Runs : StartSeq(r)
    \/ \E r \in Runs, o \in StoreOutcomes : GetSnoozeState(r, o)
    \/ \E r \in Runs, o \in StoreOutcomes : HasResumeEmailBeenSent(r, o)
    \/ \E r \in Runs, o \in SendOutcomes : SendResume(r, o)
    \/ \E r \in Runs, o \in StoreOutcomes : MarkResumeEmailSent(r, o)
    \/ \E r \in Runs, o \in {"ok", "connectFail"} : ClearSnooze(r, o)
    \/ \E r \in Runs, o \in StoreOutcomes : ClearResumeSent(r, o)
    \/ \E r \in Runs, k \in NoData \cup {"throw"} : FetchUnavailable(r, k)
    \/ \E r \in Runs, values \in TierProbes : Fetch(r, values)
    \/ \E r \in Runs, o \in SendOutcomes : SendAlert(r, o)
    \/ \E r \in Runs, o \in StoreOutcomes : SetSnooze(r, o)
    \/ \E r \in Runs : ApiStartSeq(r)
    \/ \E r \in Runs, k \in NoData \cup {"throw"} : ApiFetchUnavailable(r, k)
    \/ \E r \in Runs, values \in TierProbes : ApiFetch(r, values)
    \/ \E r \in Runs, o \in SendOutcomes : ApiSendAlert(r, o)

SpecDefault == InitDefault /\ [][NextDefault]_vars

(* ---------------------------------------------------------------------- *)
(* Properties.                                                             *)
Has(r, event) == \E i \in 1..Len(log[r]) : log[r][i] = event

HasAny(r, events) == \E i \in 1..Len(log[r]) : log[r][i] \in events

Last(s) == s[Len(s)]

Done(r) == pc[r] = "done"

Message(r) == IF "message" \in DOMAIN result[r] THEN result[r].message ELSE ""

ResumePending == \E r \in Runs : pc[r] \in {"hasResumeEmailBeenSent", "sendResume"}

(* C1: for each lapse of a snooze period exactly one resume notification   *)
(* is delivered: never more than one for one record, and once the lapsed   *)
(* record has been deleted and no invocation is still about to send the    *)
(* resume email, one has been delivered.                                   *)
ExactlyOneResumePerLapse ==
    /\ delivered <= 1
    /\ (period = "cleared" /\ ~ResumePending) => delivered = 1

(* C2: an invocation whose resume email failed to deliver neither sets the *)
(* resume-sent flag nor deletes the snooze record, so the record is still  *)
(* there for the next invocation.                                          *)
FailedResumeKeepsRecord ==
    \A r \in Runs :
        HasAny(r, {"resume:error", "resume:throw"}) =>
            ~HasAny(r, {"mark:ok", "mark:fail", "del:snooze", "del:resumeSent"})

(* C3: an invocation that reads a record whose expiresAt is strictly       *)
(* greater than the current time returns, in that very step, the skip      *)
(* response carrying that expiry; the read is the only external call of    *)
(* the invocation (no weather fetch, no email) and the store is unchanged. *)
SnoozedRunSkips ==
    [][\A r \in Runs :
          ( /\ pc[r] = "getSnoozeState"
            /\ pc'[r] # "getSnoozeState"
            /\ Last(log'[r]) # "get:fail"
            /\ redis.snooze # Null
            /\ ParseInt(redis.snooze) > now )
          => ( /\ pc'[r] = "done"
               /\ result'[r].status = 200
               /\ Message(r)' = "Currently snoozed"
               /\ result'[r].snoozed
               /\ result'[r].expiresAt.day * 24 * 60 * 60 + result'[r].expiresAt.second
                    = ParseInt(redis.snooze)
               /\ log'[r] = <<"get:snoozed">>
               /\ redis' = redis
               /\ delivered' = delivered )]_vars

SnoozedRunSkipsWitness ==
    \E r \in Runs : Done(r) /\ Message(r) = "Currently snoozed" /\ ticks > 0

FetchEvents == {"fetch:ok", "fetch:nodata", "fetch:throw"}
AlertEvents == {"alert:ok", "alert:error", "alert:throw"}
SetEvents == {"set:ok", "set:fail"}
ResolveEvents ==
    <<"get:expired", "flag:unsent", "resume:ok", "mark:ok", "del:snooze", "del:resumeSent">>

(* the steps of a run, in the order the claim gives them *)
Stage(event) ==
    CASE event \in {"resume:ok", "resume:error", "resume:throw"} -> 1
      [] event \in {"mark:ok", "mark:fail"} -> 2
      [] event \in {"del:snooze", "del:resumeSent", "clear:fail"} -> 3
      [] event \in FetchEvents -> 4
      [] OTHER -> 0

(* a tier applies to the total: the high band or the inclusive medium band *)
TierMatches(total, e) ==
    \/ total >= e.snoozeHighMin
    \/ (total >= e.snoozeMediumMin /\ total <= e.snoozeMediumMax)

(* C4: an invocation that finds the record expired and the resume flag     *)
(* unset makes its calls in the order resume email, mark sent, clear,      *)
(* weather fetch; and when none of the first three fails it makes all of   *)
(* them and goes on to the weather fetch in the same invocation.           *)
ExpiredRunResolvesThenChecks ==
    [] \A r \in Runs :
        (Len(log[r]) >= 2 /\ SubSeq(log[r], 1, 2) = <<"get:expired", "flag:unsent">>) =>
            /\ \A i, j \in 1..Len(log[r]) :
                  (i < j /\ Stage(log[r][i]) > 0 /\ Stage(log[r][j]) > 0)
                      => Stage(log[r][i]) <= Stage(log[r][j])
            /\ (Done(r) /\ ~HasAny(r, {"resume:error", "resume:throw", "mark:fail",
                                       "clear:fail"}))
                  => /\ Len(log[r]) >= 7
                     /\ SubSeq(log[r], 1, 6) = ResolveEvents
                     /\ log[r][7] \in FetchEvents

ExpiredRunResolvesThenChecksWitness ==
    \E r \in Runs :
        /\ Done(r)
        /\ Len(log[r]) >= 7
        /\ SubSeq(log[r], 1, 7) = ResolveEvents \o <<"fetch:ok">>

(* C5: an alert email is sent in a run if and only if the run fetched a    *)
(* total and the total is strictly greater than the threshold; with a      *)
(* total at or below the threshold the run sends no alert, writes no       *)
(* snooze and answers "No alert needed".                                   *)
AlertIffThresholdExceeded ==
    \A r \in Runs :
        /\ (HasAny(r, AlertEvents) \/ pc[r] \in {"sendAlert", "apiSendAlert"})
              => (Has(r, "fetch:ok") /\ loc[r].total > env.cfg.thresholdInches)
        /\ (Done(r) /\ Has(r, "fetch:ok") /\ loc[r].total > env.cfg.thresholdInches)
              => HasAny(r, AlertEvents)
        /\ (Has(r, "fetch:ok") /\ loc[r].total <= env.cfg.thresholdInches)
              => /\ ~HasAny(r, AlertEvents \cup SetEvents)
                 /\ Done(r)
                 /\ Message(r) = "No alert needed"

AlertIffThresholdExceededWitness ==
    \E r \in Runs :
        /\ Done(r)
        /\ Has(r, "fetch:ok")
        /\ loc[r].total = env.cfg.thresholdInches
        /\ Message(r) = "No alert needed"

SnoozeOnlyAfterConfirmedAlert ==
    [] \A r \in Runs :
        /\ (pc[r] = "setSnooze" \/ HasAny(r, SetEvents))
              => /\ \E i \in 1..Len(log[r]) :
                        /\ log[r][i] = "alert:ok"
                        /\ \A j \in 1..Len(log[r]) : log[r][j] \in SetEvents => i < j
                 /\ env.redisUrl
                 /\ loc[r].handler = "snooze"
                 /\ TierMatches(loc[r].total, env.cfg)
        /\ HasAny(r, {"alert:error", "alert:throw"})
              => /\ Done(r)
                 /\ result[r].status = 500
                 /\ ~HasAny(r, SetEvents)
                 /\ Has(r, "alert:error") => result[r].error = "Failed to send alert email"

SnoozeOnlyAfterConfirmedAlertWitness ==
    \E r \in Runs :
        /\ Done(r)
        /\ Has(r, "alert:error")
        /\ env.redisUrl
        /\ loc[r].handler = "snooze"
        /\ TierMatches(loc[r].total, env.cfg)

(* C8: a run whose alert email was sent for a total no tier matches calls  *)
(* no setSnooze and answers "Alert sent" with snoozed false and no         *)
(* duration.                                                               *)
NoTierNoSnooze ==
    \A r \in Runs :
        ( /\ Done(r)
          /\ loc[r].handler = "snooze"
          /\ Has(r, "alert:ok")
          /\ ~TierMatches(loc[r].total, env.cfg) )
        => /\ ~HasAny(r, SetEvents)
           /\ result[r].status = 200
           /\ Message(r) = "Alert sent"
           /\ result[r].snoozed = FALSE
           /\ result[r].snoozeWeeks = {}

NoTierNoSnoozeWitness ==
    \E r \in Runs :
        /\ Done(r)
        /\ loc[r].handler = "snooze"
        /\ env.redisUrl
        /\ Has(r, "alert:ok")
        /\ ~TierMatches(loc[r].total, env.cfg)

(* C9: a run whose read of the snooze record fails goes straight on to the *)
(* weather fetch, as with no record; and a run whose alert email was sent  *)
(* and whose snooze write then fails still answers "Alert sent".           *)
FailOpenOnStoreFailure ==
    \A r \in Runs :
        /\ Has(r, "get:fail")
              => /\ log[r][1] = "get:fail"
                 /\ Len(log[r]) = 1 => pc[r] = "fetch"
                 /\ Len(log[r]) >= 2 => log[r][2] \in FetchEvents
                 /\ \A i \in 1..Len(log[r]) : Stage(log[r][i]) \in {0, 4}
        /\ (Done(r) /\ Has(r, "alert:ok") /\ Has(r, "set:fail"))
              => /\ result[r].status = 200
                 /\ Message(r) = "Alert sent"

FailOpenOnStoreFailureWitness ==
    \E r \in Runs :
        /\ Done(r)
        /\ log[r] = <<"get:fail", "fetch:ok", "alert:ok", "set:fail">>

(* C10: a failed store write (set, mark resume sent, clear) never aborts   *)
(* the run: the run still fetches the weather total and answers with a     *)
(* check result, not with the internal error.                              *)
StoreWriteFailureNeverAborts ==
    \A r \in Runs :
        (Done(r) /\ HasAny(r, {"mark:fail", "clear:fail", "set:fail"}))
            => /\ HasAny(r, FetchEvents)
               /\ result[r].status # 500

WriteEvents == {"mark:ok", "mark:fail", "del:snooze", "del:resumeSent", "set:ok", "set:fail"}
ResumeEvents == {"resume:ok", "resume:error", "resume:throw"}

(* C11: a run whose weather fetch yields no usable data ends with a data   *)
(* error, sends no alert and has made no write to the store and sent no    *)
(* email, whatever record it found at its start, an expired one included.  *)
NoDataRunLeavesStore ==
    \A r \in Runs :
        Has(r, "fetch:nodata") =>
            /\ Done(r)
            /\ result[r].status = 500
            /\ ~HasAny(r, AlertEvents \cup WriteEvents \cup ResumeEvents)

(* C11, as it holds: such a run ends with one of the three data errors,    *)
(* sends no alert and does nothing after the fetch; it has left the store  *)
(* alone unless it found an expired record, which it resolved before the   *)
(* fetch.                                                                  *)
NoDataRunStopsAtFetch ==
    \A r \in Runs :
        Has(r, "fetch:nodata") =>
            /\ Done(r)
            /\ Last(log[r]) = "fetch:nodata"
            /\ result[r].status = 500
            /\ result[r].error \in {DataError(k).error : k \in NoData}
            /\ ~HasAny(r, AlertEvents \cup SetEvents)
            /\ log[r][1] # "get:expired"
                  => ~HasAny(r, WriteEvents \cup ResumeEvents)

NoDataRunStopsAtFetchWitness ==
    \E r \in Runs :
        /\ Done(r)
        /\ Has(r, "fetch:nodata")
        /\ log[r][1] = "get:expired"
        /\ Has(r, "del:snooze")

(* a run that found the record expired and is through with resolving it *)
Resolved(r) ==
    /\ log[r] # <<>>
    /\ log[r][1] = "get:expired"
    /\ ~HasAny(r, AlertEvents)
    /\ pc[r] = "fetch" \/ Done(r)

(* C12: runs made one after another that resolve the same lapsed snooze,   *)
(* with no new snooze written in between, deliver at most one resume       *)
(* email in total, and each leaves the store without a record.             *)
SecondResolveSendsNothing ==
    /\ delivered <= 1
    /\ \A r \in Runs : Resolved(r) => redis.snooze = Null

(* C12, as it holds: a second resume email for the same lapse is delivered *)
(* only by a run that could not read the flag or found it absent (the      *)
(* earlier mark did not take effect), and a run whose delete of the record *)
(* succeeded leaves the store without a record.                            *)
SecondResolveSendsOnlyUnflagged ==
    /\ [][ (delivered' > delivered /\ delivered >= 1) =>
              \E r \in Runs :
                  /\ pc[r] = "sendResume"
                  /\ Last(log'[r]) = "resume:ok"
                  /\ Has(r, "flag:missed") \/ redis.resumeSent = Null ]_vars
    /\ [](\A r \in Runs : (Resolved(r) /\ Has(r, "del:snooze")) => redis.snooze = Null)

SecondResolveSendsOnlyUnflaggedWitness ==
    \E r \in Runs :
        /\ Resolved(r)
        /\ Has(r, "flag:sent")
        /\ Has(r, "del:snooze")
        /\ delivered = 1

(* the status read of getSnoozeState, made of the stored text at time t *)
ReadsSnoozed(t) == redis.snooze # Null /\ IsSnoozed(ParseInt(redis.snooze), t)

(* C13: whatever duration the tier is configured with, once setSnooze has  *)
(* written at time now, a read at the same now finds the location snoozed  *)
(* until now + weeks * 604800.                                             *)
RoundTripEveryDuration ==
    \A r \in Runs :
        (Done(r) /\ Last(log[r]) = "set:ok") =>
            \A w \in loc[r].snoozeWeeks :
                /\ redis.snooze # Null
                /\ ParseInt(redis.snooze) = now + w * 604800
                /\ ReadsSnoozed(now)

(* C13, as it holds: the same for a duration of a positive whole number of *)
(* weeks; with a duration of zero the stored expiry is now itself and the  *)
(* read at the same now does not find the location snoozed.                *)
RoundTripPositiveDuration ==
    \A r \in Runs :
        (Done(r) /\ Last(log[r]) = "set:ok") =>
            \A w \in loc[r].snoozeWeeks :
                /\ redis.snooze # Null
                /\ ParseInt(redis.snooze) = now + w * 604800
                /\ ReadsSnoozed(now) <=> w > 0

RoundTripPositiveDurationWitness ==
    \E r \in Runs :
        /\ Done(r)
        /\ Last(log[r]) = "set:ok"
        /\ loc[r].snoozeWeeks = {1}
        /\ ticks > 0
        /\ ReadsSnoozed(now)

(* what a run without a store does with the weather and the notifier: the  *)
(* only calls are the fetch and, above the threshold, the alert email, and *)
(* the response follows from their outcomes alone                          *)
StorelessRun(r) ==
    /\ Len(log[r]) <= 2
    /\ \A i \in 1..Len(log[r]) : log[r][i] \in FetchEvents \cup AlertEvents
    /\ HasAny(r, AlertEvents) \/ pc[r] \in {"sendAlert", "apiSendAlert"}
          => /\ log[r][1] = "fetch:ok"
             /\ loc[r].total > env.cfg.thresholdInches
    /\ Done(r) =>
          CASE Last(log[r]) \in {"fetch:throw", "alert:throw"} -> result[r] = InternalError
            [] Last(log[r]) = "fetch:nodata" -> result[r] \in {DataError(k) : k \in NoData}
            [] Last(log[r]) = "fetch:ok" ->
                  /\ result[r] = NoAlertNeeded(loc[r].total, env.cfg)
                  /\ loc[r].total <= env.cfg.thresholdInches
            [] Last(log[r]) = "alert:error" -> result[r] = AlertFailed
            [] Last(log[r]) = "alert:ok" ->
                  /\ result[r].status = 200
                  /\ result[r].message = "Alert sent"
                  /\ result[r].precipitation = loc[r].total
                  /\ result[r].threshold = env.cfg.thresholdInches

(* C14: with no REDIS_URL the snooze handler makes no store call and, for  *)
(* every outcome of the weather fetch and of the alert email, makes the    *)
(* calls and gives the response that the handler of api/check-precipitation *)
(* gives; it never reports a snooze.                                       *)
NoStoreRunsAsStoreless ==
    \A r \in Runs :
        /\ loc[r].handler = "api" => StorelessRun(r)
        /\ (loc[r].handler = "snooze" /\ ~env.redisUrl) =>
              /\ StorelessRun(r)
              /\ pc[r] \notin {"getSnoozeState", "hasResumeEmailBeenSent", "sendResume",
                               "markResumeEmailSent", "clearSnooze", "clearResumeSent",
                               "setSnooze"}
              /\ (Done(r) /\ Last(log[r]) = "alert:ok") => ~result[r].snoozed
              /\ redis = [snooze |-> Null, resumeSent |-> Null]

NoStoreRunsAsStorelessWitness ==
    \E r \in Runs :
        /\ Done(r)
        /\ loc[r].handler = "snooze"
        /\ ~env.redisUrl
        /\ Last(log[r]) = "alert:ok"
        /\ TierMatches(loc[r].total, env.cfg)

(* C15: a record whose expiry is strictly in the future is never deleted,  *)
(* whatever runs overlap: no step takes the store from such a record to    *)
(* no record.                                                              *)
FutureRecordNeverDeleted ==
    [][ ReadsSnoozed(now) => redis'.snooze # Null ]_vars

(* C16: once setSnooze has succeeded the resume-sent flag is unset,        *)
(* whatever the store held before.                                         *)
SetSnoozeResetsFlag ==
    \A r \in Runs :
        (Done(r) /\ Last(log[r]) = "set:ok") => redis.resumeSent = Null

(* C17: the record and the resume-sent flag go together: in no state is    *)
(* the record absent while the flag is still set.                          *)
ClearIsAtomic ==
    redis.snooze = Null => redis.resumeSent = Null

AlertsSent(r) == Cardinality({i \in 1..Len(log[r]) : log[r][i] \in AlertEvents})

(* C18: a run that read no record and alerted with a tier sends exactly    *)
(* one alert email and calls setSnooze, also when another such run writes  *)
(* the record in the meantime; a setSnooze that succeeds leaves one record *)
(* holding its own expiry, in the future, whatever was stored before, so   *)
(* after both the record is that of the later write.                       *)
ConcurrentAlertsLastWriteWins ==
    /\ [](\A r \in Runs :
            /\ (pc[r] = "setSnooze" \/ HasAny(r, SetEvents)) =>
                  /\ AlertsSent(r) = 1
                  /\ Has(r, "alert:ok")
                  /\ TierMatches(loc[r].total, env.cfg)
            /\ (Done(r) /\ loc[r].handler = "snooze" /\ env.redisUrl
                  /\ Has(r, "alert:ok") /\ TierMatches(loc[r].total, env.cfg))
                  => HasAny(r, SetEvents))
    /\ [][ \A r \in Runs :
              (pc[r] = "setSnooze" /\ pc'[r] = "done" /\ Last(log'[r]) = "set:ok") =>
                  \A w \in loc[r].snoozeWeeks :
                      /\ redis'.snooze = NumToString(now + w * 604800)
                      /\ ParseInt(redis'.snooze) = now + w * 604800
                      /\ IsSnoozed(ParseInt(redis'.snooze), now)
                      /\ redis'.resumeSent = redis.resumeSent ]_vars

ConcurrentAlertsLastWriteWinsWitness ==
    \E r \in Runs :
        /\ Done(r)
        /\ log[r] = <<"get:absent", "fetch:ok", "alert:ok", "set:ok">>
        /\ period = "reset"

(* C19: the read of getSnoozeState returns the skip response if and only   *)
(* if it obtains a record whose expiry is greater than the current time,   *)
(* goes on to resolve the expiry if and only if it obtains a record whose  *)
(* expiry is at or before the current time, an expiry equal to it          *)
(* included, and goes on to the weather fetch otherwise; a read that fails *)
(* obtains no record.                                                      *)
StatusReadClassifies ==
    [][ \A r \in Runs :
          (pc[r] = "getSnoozeState" /\ pc'[r] # "getSnoozeState") =>
              LET read == IF Last(log'[r]) = "get:fail" THEN Null ELSE redis.snooze
              IN /\ (pc'[r] = "done" /\ Message(r)' = "Currently snoozed")
                       <=> (read # Null /\ ParseInt(read) > now)
                 /\ pc'[r] = "hasResumeEmailBeenSent"
                       <=> (read # Null /\ ParseInt(read) <= now)
                 /\ pc'[r] = "fetch" <=> read = Null
                 /\ pc'[r] \in {"done", "hasResumeEmailBeenSent", "fetch"} ]_vars

StatusReadClassifiesWitness ==
    \E r \in Runs :
        /\ pc[r] = "hasResumeEmailBeenSent"
        /\ log[r] = <<"get:expired">>
        /\ redis.snooze # Null
        /\ ParseInt(redis.snooze) = now

(* C20: a run whose response reports a snooze applied has written the      *)
(* record: the store holds the expiry that run computed.                   *)
ReportedSnoozeWasWritten ==
    \A r \in Runs :
        (Done(r) /\ Message(r) = "Alert sent" /\ loc[r].handler = "snooze"
            /\ result[r].snoozed) =>
            \A w \in loc[r].snoozeWeeks :
                redis.snooze = NumToString(now + w * 604800)

(* C21: a run that has ended has left no store client connected: every     *)
(* client it connected has been quit, on the failure paths as well.        *)
NoConnectionLeftOpen ==
    \A r \in Runs : Done(r) => loc[r].open = 0

(* the failures of the weather fetch, the notifier and the store, as logged *)
DataFailures == {"fetch:nodata"}
ThrownFailures == {"fetch:throw", "alert:throw", "resume:throw", "clear:fail"}
SwallowedFailures == {"get:fail", "flag:missed", "resume:error", "mark:fail", "set:fail"}

DataErrors == {DataError(k).error : k \in NoData}

Attempts(r, kind) ==
    /\ Len(log'[r]) = Len(log[r]) + 1
    /\ Last(log'[r]) \in kind

(* C24: a run that makes a weather fetch, sends an alert email or sends a  *)
(* resume email has made no call of that kind before, whether an earlier   *)
(* one failed or not.                                                      *)
EachCallAtMostOncePerRun ==
    [][ \A r \in Runs :
          /\ Attempts(r, FetchEvents) => ~HasAny(r, FetchEvents)
          /\ Attempts(r, AlertEvents) => ~HasAny(r, AlertEvents)
          /\ Attempts(r, ResumeEvents) => ~HasAny(r, ResumeEvents) ]_vars

EachCallAtMostOncePerRunWitness ==
    \E r \in Runs :
        /\ Done(r)
        /\ Has(r, "resume:error")
        /\ Has(r, "fetch:ok")
        /\ Last(log[r]) = "alert:error"

Horizon == 1 + MaxTicks * 604800

Expiring == redis.snooze # Null /\ ParseInt(redis.snooze) <= now

(* C23: when invocations keep being made and the store, the weather source *)
(* and the notifier come to respond, a record that snoozes the location    *)
(* until a time the clock reaches comes to be expired (unless a later      *)
(* alert has written a record over it); an expired record comes to be      *)
(* deleted or written over by the snooze of a new alert; and after it has  *)
(* expired a weather fetch is made and evaluated again.                    *)
SnoozeEndsAndCheckResumes ==
    /\ (ReadsSnoozed(now) /\ ParseInt(redis.snooze) <= Horizon)
          ~> (Expiring \/ (redis.snooze # Null /\ ParseInt(redis.snooze) > Horizon))
    /\ Expiring ~> (redis.snooze = Null \/ ReadsSnoozed(now))
    /\ (Expiring /\ AllIdle) ~> (\E r \in Runs : Has(r, "fetch:ok"))

SnoozeEndsAndCheckResumesWitness ==
    \E r \in Runs :
        /\ ~FailuresLeft
        /\ log[r] # <<>>
        /\ log[r][1] = "get:expired"
        /\ Has(r, "del:resumeSent")
        /\ Has(r, "fetch:ok")
        /\ redis.snooze = Null
====
